---- MODULE Spec2Model ----
(***************************************************************************)
(* Bulk-load orchestration of db_services/aws_netpune/graph_loader.py:     *)
(* GenerateNode.create_node and GenerateNode.upsert_node submit a load job *)
(* with one POST and then poll its status with GETs until a stopping       *)
(* status, an error, or the end of range(limit).                           *)
(***************************************************************************)
EXTENDS Integers, Sequences, FiniteSets, TLC

\* ------------------------------------------------------------------ bounds
\* largest value of the limit argument that is explored
MaxLimit == 3
\* largest value of the limit argument when two invocations are interleaved
MaxConcLimit == 2

\* ------------------------------------------------------- program constants
HTTP_OK == 200
SettleDelay == 2
PollInterval == 1
BackoffDelay == 3

LOAD_COMPLETED == "LOAD_COMPLETED"
LOAD_FAILED == "LOAD_FAILED"
LOAD_IN_QUEUE == "LOAD_IN_QUEUE"

\* status codes of the remote store that the loader does not name
TransitionalCodes == {"LOAD_IN_PROGRESS", "LOAD_NOT_STARTED"}

\* a key that is missing from a JSON object
Absent == "<absent>"

\* ------------------------------------------------------------ input domains
Procs == {1, 2}
Solo == {1}
Variants == {"create", "upsert"}
Keys == {"nodes.csv", "edges.csv"}
graph_loader_uri == "graph_loader_uri"
s3_bucket_name == "s3_bucket_name"
JobIds == {"job-a", "job-b"}
NonOkCodes == {500}
Limits == 0..MaxLimit

\* the list tested at line 53 / line 100
StopCodes_NoQueue == {LOAD_COMPLETED, LOAD_FAILED}
StopCodes_NoFailed == {LOAD_COMPLETED, LOAD_IN_QUEUE}
StopCodes_NoCompleted == {LOAD_FAILED, LOAD_IN_QUEUE}
StopCodes == {LOAD_COMPLETED, LOAD_FAILED, LOAD_IN_QUEUE}

StatusCodes == {LOAD_COMPLETED, LOAD_FAILED, LOAD_IN_QUEUE} \cup TransitionalCodes

\* a response object of Rest: its status_code, whether json() parses, and
\* the two nested lookups the loader makes in the parsed body
Response(c, p, l, s) == [code |-> c, parse |-> p, loadId |-> l, status |-> s]

\* no response: the transport call raised
NoResp == Response(0, FALSE, Absent, Absent)

PostResponses ==
    {Response(HTTP_OK, TRUE, j, Absent) : j \in JobIds}
    \cup {Response(HTTP_OK, TRUE, "job-a", s) : s \in {LOAD_FAILED, "LOAD_IN_PROGRESS"}}
    \cup {Response(HTTP_OK, TRUE, Absent, Absent), Response(HTTP_OK, FALSE, Absent, Absent)}
    \cup {Response(c, p, Absent, Absent) : c \in NonOkCodes, p \in BOOLEAN}

GetResponses ==
    {Response(HTTP_OK, TRUE, Absent, s) : s \in StatusCodes}
    \cup {Response(HTTP_OK, TRUE, Absent, Absent), Response(HTTP_OK, FALSE, Absent, Absent)}
    \cup {Response(c, TRUE, Absent, Absent) : c \in NonOkCodes}

\* ------------------------------------------------------------------- errors
\* raise Exception("Error to post neptune -> ", resp.json())
SubmissionError == "Exception: Error to post neptune -> "
\* raise Exception("error fetching status neptune")
PollError == "Exception: error fetching status neptune"
KeyError == "KeyError"
TypeError == "TypeError"
JSONDecodeError == "JSONDecodeError"
TransportError == "TransportError"

\* ------------------------------------------------------------------ payload
\* "s3://{}/{}".format(config.s3_bucket_name, key)
Source(key) == <<"s3://", s3_bucket_name, "/", key>>

create_payload_highParallelism(key) ==
    [source |-> Source(key), format |-> "csv", mode |-> "AUTO",
     iamRoleArn |-> "arn:aws:iam::IAMROLE_ID:role/NeptuneAccessS3",
     region |-> "region_name", failOnError |-> "FALSE",
     parallelism |-> "HIGH", queueRequest |-> "TRUE",
     updateSingleCardinalityProperties |-> "FALSE"]

create_payload(key) ==
    [source |-> Source(key), format |-> "csv", mode |-> "AUTO",
     iamRoleArn |-> "arn:aws:iam::IAMROLE_ID:role/NeptuneAccessS3",
     region |-> "region_name", failOnError |-> "FALSE",
     parallelism |-> "MEDIUM", queueRequest |-> "TRUE",
     updateSingleCardinalityProperties |-> "FALSE"]

upsert_payload_failOnError(key) ==
    [source |-> Source(key), format |-> "csv", mode |-> "AUTO",
     iamRoleArn |-> "arn:aws:iam::IAMROLE_ID:role/NeptuneAccessS3",
     region |-> "region_name", failOnError |-> "TRUE",
     parallelism |-> "MEDIUM",
     updateSingleCardinalityProperties |-> "TRUE"]

upsert_payload(key) ==
    [source |-> Source(key), format |-> "csv", mode |-> "AUTO",
     iamRoleArn |-> "arn:aws:iam::IAMROLE_ID:role/NeptuneAccessS3",
     region |-> "region_name", failOnError |-> "FALSE",
     parallelism |-> "MEDIUM",
     updateSingleCardinalityProperties |-> "TRUE"]

BuildPayload(variant, key) ==
    IF variant = "create" THEN create_payload(key) ELSE upsert_payload(key)

\* "{}/{}".format(url, queue_id)
temp_url_baseOnly(url, queue_id) == <<url>>
temp_url(url, queue_id) == <<url, "/", queue_id>>

\* -------------------------------------------------------------------- state
VARIABLES
    pc,        \* position of each invocation in its function body
    args,      \* the arguments of the call: variant, limit, key, url
    payload,   \* local `payload`
    resp,      \* local `resp`, the last response object
    response,  \* local `response`, the last parsed body
    queue_id,  \* local `queue_id`
    iter,      \* how many values range(limit) has yielded
    retval,    \* the value returned
    err,       \* the exception raised
    posted,    \* the request bodies the invocation has sent with POST
    trace      \* what the invocation did, in order: calls, sleeps, log records

vars == <<pc, args, payload, resp, response, queue_id, iter, retval, err, posted, trace>>

NoArgs == [variant |-> "create", limitGiven |-> FALSE, limit |-> 0,
           key |-> "nodes.csv", url |-> graph_loader_uri]

\* one entry of the trace
Event(op, target, r, secs, level) ==
    [op |-> op, target |-> target, resp |-> r, secs |-> secs, level |-> level]

PostEvent(url, r) == Event("POST", <<url>>, r, 0, "")
GetEvent(url, r) == Event("GET", url, r, 0, "")
SleepEvent(secs) == Event("SLEEP", <<>>, NoResp, secs, "")
LogEvent(level, r) == Event("LOG", <<>>, r, 0, level)

Init ==
    /\ pc = [i \in Procs |-> "idle"]
    /\ args = [i \in Procs |-> NoArgs]
    /\ payload = [i \in Procs |-> create_payload("nodes.csv")]
    /\ resp = [i \in Procs |-> NoResp]
    /\ response = [i \in Procs |-> NoResp]
    /\ queue_id = [i \in Procs |-> Absent]
    /\ iter = [i \in Procs |-> 0]
    /\ retval = [i \in Procs |-> Absent]
    /\ err = [i \in Procs |-> Absent]
    /\ posted = [i \in Procs |-> <<>>]
    /\ trace = [i \in Procs |-> <<>>]

\* resp.status_code != HTTPStatus.OK is false
IsOk_always(r) == TRUE
IsOk(r) == r.code = HTTP_OK

\* the function raises e
Raise(i, e) ==
    /\ pc' = [pc EXCEPT ![i] = "raised"]
    /\ err' = [err EXCEPT ![i] = e]

Goto(i, label) ==
    /\ pc' = [pc EXCEPT ![i] = label]
    /\ err' = err

Log(i, ev) == trace' = [trace EXCEPT ![i] = Append(@, ev)]

\* create_node(limit, key, url) / upsert_node(limit, key, url) is called and
\* builds its payload
CallWith(i, limits, keys) ==
    /\ pc[i] = "idle"
    /\ \E v \in Variants, g \in BOOLEAN, n \in limits, k \in keys :
          /\ g = FALSE => n = 0
          /\ args' = [args EXCEPT ![i] =
                [variant |-> v, limitGiven |-> g, limit |-> n, key |-> k,
                 url |-> graph_loader_uri]]
          /\ payload' = [payload EXCEPT ![i] = BuildPayload(v, k)]
    /\ Goto(i, "post")
    /\ UNCHANGED <<resp, response, queue_id, iter, retval, posted, trace>>

Call(i) == CallWith(i, Limits, Keys)

\* resp = rest.post(url, payload=payload)
PostWith(i, answers) ==
    /\ pc[i] = "post"
    /\ posted' = [posted EXCEPT ![i] = Append(@, payload[i])]
    /\ \/ \E r \in answers :
             /\ resp' = [resp EXCEPT ![i] = r]
             /\ Log(i, PostEvent(args[i].url, r))
             /\ Goto(i, "settle")
       \/ /\ resp' = resp
          /\ Log(i, PostEvent(args[i].url, NoResp))
          /\ Raise(i, TransportError)
    /\ UNCHANGED <<args, payload, response, queue_id, iter, retval>>

Post(i) == PostWith(i, PostResponses)

\* time.sleep(2)
Settle_skipped(i) ==
    /\ pc[i] = "settle"
    /\ trace' = trace
    /\ Goto(i, "check_post")
    /\ UNCHANGED <<args, payload, resp, response, queue_id, iter, retval, posted>>

Settle(i) ==
    /\ pc[i] = "settle"
    /\ Log(i, SleepEvent(SettleDelay))
    /\ Goto(i, "check_post")
    /\ UNCHANGED <<args, payload, resp, response, queue_id, iter, retval, posted>>

\* if resp.status_code != HTTPStatus.OK: raise Exception(..., resp.json())
\* response = resp.json(); queue_id = response[PAYLOAD][LOAD_ID]
CheckPost(i) ==
    /\ pc[i] = "check_post"
    /\ IF ~resp[i].parse
         THEN Raise(i, JSONDecodeError) /\ UNCHANGED <<response, queue_id>>
       ELSE IF ~IsOk(resp[i])
         THEN Raise(i, SubmissionError) /\ UNCHANGED <<response, queue_id>>
       ELSE /\ response' = [response EXCEPT ![i] = resp[i]]
            /\ IF resp[i].loadId = Absent
                 THEN Raise(i, KeyError) /\ queue_id' = queue_id
                 ELSE /\ queue_id' = [queue_id EXCEPT ![i] = resp[i].loadId]
                      /\ Goto(i, "loop")
    /\ UNCHANGED <<args, payload, resp, iter, retval, posted, trace>>

\* range(limit) yields another value
\* range(limit) takes an int; range(None) raises TypeError
range_accepts_noneAsEmpty(a) == TRUE
range_accepts(a) == a.limitGiven

range_has_next_extra(it, lim) == it <= lim
range_has_next(it, lim) == it < lim

\* the iterator of range(limit) is a local of the call: taking its next
\* value advances the count of this invocation only
NextIteration_shared(i) == [j \in Procs |-> iter[i] + 1]
NextIteration(i) == [iter EXCEPT ![i] = @ + 1]

\* for iteration in range(limit):
LoopHead(i) ==
    /\ pc[i] = "loop"
    /\ IF ~range_accepts(args[i])
         THEN Raise(i, TypeError) /\ iter' = iter
       ELSE IF range_has_next(iter[i], args[i].limit)
         THEN iter' = NextIteration(i) /\ Goto(i, "get")
       ELSE iter' = iter /\ Goto(i, "return")
    /\ UNCHANGED <<args, payload, resp, response, queue_id, retval, posted, trace>>

\* temp_url = "{}/{}".format(url, queue_id); resp = rest.get(temp_url)
GetWith(i, answers) ==
    /\ pc[i] = "get"
    /\ \/ \E r \in answers :
             /\ resp' = [resp EXCEPT ![i] = r]
             /\ Log(i, GetEvent(temp_url(args[i].url, queue_id[i]), r))
             /\ Goto(i, "check_get")
       \/ /\ resp' = resp
          /\ Log(i, GetEvent(temp_url(args[i].url, queue_id[i]), NoResp))
          /\ Raise(i, TransportError)
    /\ UNCHANGED <<args, payload, response, queue_id, iter, retval, posted>>

Get(i) == GetWith(i, GetResponses)

\* if resp.status_code != HTTPStatus.OK: raise Exception("error fetching ...")
CheckGet(i) ==
    /\ pc[i] = "check_get"
    /\ IF ~IsOk(resp[i])
         THEN Raise(i, PollError)
         ELSE Goto(i, "poll_sleep")
    /\ UNCHANGED <<args, payload, resp, response, queue_id, iter, retval, posted, trace>>

\* time.sleep(1)
PollSleep(i) ==
    /\ pc[i] = "poll_sleep"
    /\ Log(i, SleepEvent(PollInterval))
    /\ Goto(i, "parse")
    /\ UNCHANGED <<args, payload, resp, response, queue_id, iter, retval, posted>>

\* response = resp.json(); Logging.info("status neptune -> ...")
ParseAndLog(i) ==
    /\ pc[i] = "parse"
    /\ IF ~resp[i].parse
         THEN Raise(i, JSONDecodeError) /\ UNCHANGED <<response, trace>>
         ELSE /\ response' = [response EXCEPT ![i] = resp[i]]
              /\ Log(i, LogEvent("info", resp[i]))
              /\ Goto(i, "classify")
    /\ UNCHANGED <<args, payload, resp, queue_id, iter, retval, posted>>

\* the diagnostic of the upsert variant:
\* if response[PAYLOAD][OVERALLSTATUS][STATUS] == LOAD_FAILED: Logging.error(...)
LogsFailure_always(variant, status) == variant = "upsert"
LogsFailure(variant, status) == variant = "upsert" /\ status = LOAD_FAILED

\* where line 53 / line 100 sends the loop: on to the backoff pause, or out
\* of the loop with break
AfterClassify_noBreak(status) ==
    IF status \notin StopCodes THEN "backoff" ELSE "loop"
AfterClassify_raiseOnFailed(status) ==
    IF status \notin StopCodes THEN "backoff"
    ELSE IF status = LOAD_FAILED THEN "raised" ELSE "return"
AfterClassify_resubmit(status) ==
    IF status \notin StopCodes THEN "backoff"
    ELSE IF status = LOAD_FAILED THEN "post" ELSE "return"
AfterClassify(status) ==
    IF status \notin StopCodes THEN "backoff" ELSE "return"

\* if response[PAYLOAD][OVERALLSTATUS][STATUS] not in [...]: ... else: break
Classify(i) ==
    /\ pc[i] = "classify"
    /\ IF response[i].status = Absent
         THEN Raise(i, KeyError) /\ trace' = trace
         ELSE /\ IF /\ response[i].status \in StopCodes
                    /\ LogsFailure(args[i].variant, response[i].status)
                   THEN Log(i, LogEvent("error", response[i]))
                   ELSE trace' = trace
              /\ Goto(i, AfterClassify(response[i].status))
    /\ UNCHANGED <<args, payload, resp, response, queue_id, iter, retval, posted>>

\* time.sleep(3)
Backoff_notAfterLast(i) ==
    /\ pc[i] = "backoff"
    /\ IF iter[i] < args[i].limit
         THEN Log(i, SleepEvent(BackoffDelay))
         ELSE trace' = trace
    /\ Goto(i, "loop")
    /\ UNCHANGED <<args, payload, resp, response, queue_id, iter, retval, posted>>

Backoff(i) ==
    /\ pc[i] = "backoff"
    /\ Log(i, SleepEvent(BackoffDelay))
    /\ Goto(i, "loop")
    /\ UNCHANGED <<args, payload, resp, response, queue_id, iter, retval, posted>>

\* return response[PAYLOAD][OVERALLSTATUS][STATUS]
ReturnValue_jobId(i) == queue_id[i]
ReturnValue(i) == response[i].status

Return(i) ==
    /\ pc[i] = "return"
    /\ IF response[i].status = Absent
         THEN Raise(i, KeyError) /\ retval' = retval
         ELSE /\ retval' = [retval EXCEPT ![i] = ReturnValue(i)]
              /\ Goto(i, "returned")
    /\ UNCHANGED <<args, payload, resp, response, queue_id, iter, posted, trace>>

Step(i) ==
    \/ Call(i)
    \/ Post(i)
    \/ Settle(i)
    \/ CheckPost(i)
    \/ LoopHead(i)
    \/ Get(i)
    \/ CheckGet(i)
    \/ PollSleep(i)
    \/ ParseAndLog(i)
    \/ Classify(i)
    \/ Backoff(i)
    \/ Return(i)

Next == \E i \in Solo : Step(i)

Spec == Init /\ [][Next]_vars

\* every blocking call and every sleep returns: a call that can take a step
\* takes it
FairSpec == Spec /\ WF_vars(Next)

\* two invocations, each with its own arguments, job id and responses, run
\* interleaved in any order
ConcLimits == 0..MaxConcLimit
ConcKeys == {"nodes.csv"}
ConcPostResponses ==
    {Response(HTTP_OK, TRUE, j, Absent) : j \in JobIds}
    \cup {Response(c, TRUE, Absent, Absent) : c \in NonOkCodes}
ConcGetResponses ==
    {Response(HTTP_OK, TRUE, Absent, s) : s \in {"LOAD_IN_PROGRESS", LOAD_FAILED}}
    \cup {Response(c, TRUE, Absent, Absent) : c \in NonOkCodes}

ConcCall(i) == CallWith(i, ConcLimits, ConcKeys)
ConcPost(i) == PostWith(i, ConcPostResponses)
ConcGet(i) == GetWith(i, ConcGetResponses)

ConcStep(i) ==
    \/ ConcCall(i)
    \/ ConcPost(i)
    \/ Settle(i)
    \/ CheckPost(i)
    \/ LoopHead(i)
    \/ ConcGet(i)
    \/ CheckGet(i)
    \/ PollSleep(i)
    \/ ParseAndLog(i)
    \/ Classify(i)
    \/ Backoff(i)
    \/ Return(i)

NextConc == \E i \in Procs : ConcStep(i)

SpecConc == Init /\ [][NextConc]_vars

\* ------------------------------------------------------------- observations
\* the status fetches an invocation has issued, in order
GetEvents(i) == SelectSeq(trace[i], LAMBDA e : e.op = "GET")
Fetches(i) == Len(GetEvents(i))
\* the responses to those fetches, in order
Observed(i) == [k \in 1..Fetches(i) |-> GetEvents(i)[k].resp]
\* the POSTs an invocation has issued
Posts(i) == Len(SelectSeq(trace[i], LAMBDA e : e.op = "POST"))
\* how many sleeps of a given length an invocation has made
Sleeps(i, secs) ==
    Len(SelectSeq(trace[i], LAMBDA e : e.op = "SLEEP" /\ e.secs = secs))
\* the records an invocation has logged at a level
Records(i, level) ==
    SelectSeq(trace[i], LAMBDA e : e.op = "LOG" /\ e.level = level)

\* a success response whose body carries a status code of the set S
Carries(r, S) == r.code = HTTP_OK /\ r.parse /\ r.status \in S

\* the codes the design calls stopping and transitional
Stopping == {LOAD_COMPLETED, LOAD_FAILED, LOAD_IN_QUEUE}
Transitional == StatusCodes \ Stopping

AllTransitional(obs) == \A k \in 1..Len(obs) : Carries(obs[k], Transitional)

\* the invocation got past the submission and entered the polling loop
PollStarted(i) == queue_id[i] # Absent /\ pc[i] \notin {"idle", "post", "settle", "check_post"}

\* the outcome a caller reads from a returned value
OutcomeOf(code) ==
    IF code = LOAD_COMPLETED THEN "COMPLETED"
    ELSE IF code = LOAD_FAILED THEN "FAILED"
    ELSE IF code = LOAD_IN_QUEUE THEN "QUEUED"
    ELSE "BUDGET_EXHAUSTED"

Outcome(i) == OutcomeOf(retval[i])

\* ------------------------------------------------------------------- claims

\* C1: with limit >= 1 and every status response so far carrying a
\* transitional code, the call never raises and never fetches more than limit
\* times, and when it returns it has fetched exactly limit times and the
\* caller reads the budget-exhausted outcome (the last transitional code).
C1_BudgetExhaustedAfterLimitFetches ==
    \A i \in Procs :
        (PollStarted(i) /\ args[i].limitGiven /\ args[i].limit >= 1
            /\ AllTransitional(Observed(i)))
        => /\ Fetches(i) <= args[i].limit
           /\ pc[i] # "raised"
           /\ pc[i] = "returned" =>
                 /\ Fetches(i) = args[i].limit
                 /\ Outcome(i) = "BUDGET_EXHAUSTED"
                 /\ retval[i] = Observed(i)[Fetches(i)].status

C1_Witness ==
    \E i \in Procs :
        /\ pc[i] = "returned" /\ args[i].limitGiven /\ args[i].limit >= 2
        /\ AllTransitional(Observed(i))
        /\ Fetches(i) = args[i].limit

\* the loop ran out of range(limit) without a stopping status
LoopExhausted(i) ==
    /\ PollStarted(i) /\ args[i].limitGiven
    /\ Fetches(i) = args[i].limit
    /\ AllTransitional(Observed(i))
    /\ pc[i] \in {"return", "returned", "raised"}

\* C2: when the loop completes limit iterations without a stopping status the
\* call returns, it does not raise, and the value returned is the last
\* observed status and is none of the values returned on a stopping status.
C2_ExhaustionReturnsDistinguishedOutcome ==
    \A i \in Procs :
        LoopExhausted(i) =>
            /\ pc[i] # "raised"
            /\ pc[i] = "returned" =>
                  /\ retval[i] \notin Stopping
                  /\ Fetches(i) >= 1
                  /\ retval[i] = Observed(i)[Fetches(i)].status

\* the responses observed are k transitional codes and then a stopping code
StoppedAfterTransitionals(obs) ==
    /\ Len(obs) >= 1
    /\ AllTransitional(SubSeq(obs, 1, Len(obs) - 1))
    /\ Carries(obs[Len(obs)], Stopping)

\* C3: once the responses are k transitional codes followed by a stopping
\* code, the k+1 fetches made are all the fetches of the call: it goes on to
\* return (no further iteration, no error) and returns that stopping code.
C3_StopsAtFirstStoppingCode ==
    \A i \in Procs :
        StoppedAfterTransitionals(Observed(i)) =>
            /\ pc[i] \in {"check_get", "poll_sleep", "parse", "classify", "return", "returned"}
            /\ iter[i] = Fetches(i)
            /\ pc[i] = "returned" => retval[i] = Observed(i)[Fetches(i)].status

C3_Witness ==
    \E i \in Procs :
        /\ pc[i] = "returned" /\ Fetches(i) = 3 /\ args[i].limit >= 3
        /\ Carries(Observed(i)[1], {"LOAD_IN_PROGRESS"})
        /\ Carries(Observed(i)[2], {"LOAD_IN_PROGRESS"})
        /\ Carries(Observed(i)[3], {LOAD_FAILED})
        /\ retval[i] = LOAD_FAILED

\* C4: no status fetch follows a response whose status is COMPLETED or
\* FAILED, and a call that returns after such a response returns its code.
C4_NoFetchAfterFinalStatus ==
    \A i \in Procs :
        \A k \in 1..Fetches(i) :
            Carries(Observed(i)[k], {LOAD_COMPLETED, LOAD_FAILED}) =>
                /\ k = Fetches(i)
                /\ pc[i] \notin {"loop", "get", "backoff"}
                /\ pc[i] = "returned" => retval[i] = Observed(i)[k].status

C4_Witness ==
    \E i \in Procs :
        /\ pc[i] = "returned" /\ Fetches(i) = 2 /\ args[i].limit > 2
        /\ Carries(Observed(i)[2], {LOAD_FAILED})

\* C5: when the first status response is COMPLETED the call makes that one
\* fetch only, never waits a backoff pause, waits one inter-poll delay, and
\* returns COMPLETED.
C5_ImmediateCompletion ==
    \A i \in Procs :
        (Fetches(i) >= 1 /\ Carries(Observed(i)[1], {LOAD_COMPLETED})) =>
            /\ Fetches(i) = 1
            /\ Sleeps(i, BackoffDelay) = 0
            /\ Sleeps(i, PollInterval) <= 1
            /\ pc[i] \notin {"raised", "loop", "get", "backoff"}
            /\ pc[i] = "returned" =>
                  /\ retval[i] = LOAD_COMPLETED
                  /\ Sleeps(i, PollInterval) = 1

C5_Witness ==
    \E i \in Procs :
        /\ pc[i] = "returned" /\ args[i].limit >= 2
        /\ Fetches(i) = 1 /\ Carries(Observed(i)[1], {LOAD_COMPLETED})

\* the position in the trace of the k-th status fetch
GetPosition(i, k) ==
    CHOOSE p \in 1..Len(trace[i]) :
        /\ trace[i][p].op = "GET"
        /\ Cardinality({q \in 1..p : trace[i][q].op = "GET"}) = k

\* C6: at whichever iteration an IN_QUEUE response is observed, no backoff
\* pause and no fetch follows it, the call does not raise, and it returns the
\* queued outcome.
C6_InQueueStops ==
    \A i \in Procs :
        \A k \in 1..Fetches(i) :
            Carries(Observed(i)[k], {LOAD_IN_QUEUE}) =>
                /\ k = Fetches(i)
                /\ \A p \in GetPosition(i, k)..Len(trace[i]) :
                      ~(trace[i][p].op = "SLEEP" /\ trace[i][p].secs = BackoffDelay)
                /\ pc[i] \notin {"raised", "loop", "get", "backoff"}
                /\ pc[i] = "returned" => Outcome(i) = "QUEUED"

C6_Witness ==
    \E i \in Procs :
        /\ pc[i] = "returned" /\ args[i].limit > 2
        /\ Fetches(i) = 2 /\ Carries(Observed(i)[2], {LOAD_IN_QUEUE})
        /\ Sleeps(i, BackoffDelay) = 1

\* the response to the submission
PostResponse(i) == trace[i][1].resp
\* a response arrived and its status is not 200
NonSuccess(r) == r.code \notin {HTTP_OK, 0}

\* C7: a submission whose POST is answered with a non-200 response ends in
\* the submission error, with no job id, no status fetch and no second POST.
C7_RejectedSubmissionSurfacesSubmissionError ==
    \A i \in Procs :
        (Posts(i) >= 1 /\ NonSuccess(PostResponse(i))) =>
            /\ Posts(i) = 1
            /\ Fetches(i) = 0
            /\ queue_id[i] = Absent
            /\ pc[i] \in {"settle", "check_post", "raised"}
            /\ pc[i] = "raised" => err[i] = SubmissionError

\* C8: a status fetch answered with a non-200 response is the last thing the
\* call does before it raises the poll error: it is the k-th fetch of the
\* k-th iteration, nothing is slept, logged or fetched after it, and no value
\* is returned.
C8_FailedFetchAbortsLoop ==
    \A i \in Procs :
        \A k \in 1..Fetches(i) :
            NonSuccess(Observed(i)[k]) =>
                /\ k = Fetches(i)
                /\ iter[i] = k
                /\ GetPosition(i, k) = Len(trace[i])
                /\ pc[i] \in {"check_get", "raised"}
                /\ pc[i] = "raised" => err[i] = PollError
                /\ retval[i] = Absent

C8_Witness ==
    \E i \in Procs :
        /\ pc[i] = "raised" /\ err[i] = PollError
        /\ Fetches(i) = 2 /\ args[i].limit > 2
        /\ NonSuccess(Observed(i)[2])

\* the payload create_node and the payload upsert_node build for the key of
\* invocation i, the one i sent taken from what it posted
CreateSide(i) ==
    IF args[i].variant = "create" THEN posted[i][1] ELSE create_payload(args[i].key)
UpsertSide(i) ==
    IF args[i].variant = "upsert" THEN posted[i][1] ELSE upsert_payload(args[i].key)

VariantFields == {"queueRequest", "updateSingleCardinalityProperties"}

\* every field other than the two variant fields is in both payloads, equal
OtherFieldsIdentical(c, u) ==
    \A f \in ((DOMAIN c) \cup (DOMAIN u)) \ VariantFields :
        f \in DOMAIN c /\ f \in DOMAIN u /\ c[f] = u[f]

\* C9 as stated: the two payloads for one source agree outside queueRequest
\* and updateSingleCardinalityProperties; create sends queueing enabled and
\* overwrite disabled, upsert sends queueing disabled and overwrite enabled.
C9_UpsertSendsQueueingDisabled ==
    \A i \in Procs :
        Len(posted[i]) >= 1 =>
            /\ OtherFieldsIdentical(CreateSide(i), UpsertSide(i))
            /\ CreateSide(i).queueRequest = "TRUE"
            /\ CreateSide(i).updateSingleCardinalityProperties = "FALSE"
            /\ UpsertSide(i).updateSingleCardinalityProperties = "TRUE"
            /\ "queueRequest" \in DOMAIN UpsertSide(i)
            /\ UpsertSide(i).queueRequest = "FALSE"

\* C9 amended: the two payloads for one source agree outside queueRequest and
\* updateSingleCardinalityProperties; create sends queueRequest TRUE and
\* overwrite FALSE, upsert sends overwrite TRUE and no queueRequest field.
C9_UpsertOmitsQueueRequest ==
    \A i \in Procs :
        Len(posted[i]) >= 1 =>
            /\ OtherFieldsIdentical(CreateSide(i), UpsertSide(i))
            /\ CreateSide(i).queueRequest = "TRUE"
            /\ CreateSide(i).updateSingleCardinalityProperties = "FALSE"
            /\ UpsertSide(i).updateSingleCardinalityProperties = "TRUE"
            /\ "queueRequest" \notin DOMAIN UpsertSide(i)
            /\ DOMAIN CreateSide(i) = (DOMAIN UpsertSide(i)) \cup {"queueRequest"}

C9_Witness ==
    \E i \in Procs :
        /\ args[i].variant = "upsert" /\ args[i].key = "edges.csv"
        /\ Len(posted[i]) = 1 /\ pc[i] = "returned"

\* C10: the upsert call logs one error record, the full status payload, when
\* and only when the response it stops on is FAILED, and has logged it by the
\* time it returns; the create call logs no error record.
C10_UpsertLogsFailureOnce ==
    \A i \in Procs :
        LET errs == Records(i, "error")
            n == Fetches(i)
        IN  /\ Len(errs) <= 1
            /\ args[i].variant = "create" => Len(errs) = 0
            /\ Len(errs) = 1 =>
                  /\ n >= 1
                  /\ Carries(Observed(i)[n], {LOAD_FAILED})
                  /\ errs[1].resp = Observed(i)[n]
                  /\ trace[i][Len(trace[i])] = errs[1]
            /\ (/\ args[i].variant = "upsert" /\ n >= 1
                /\ Carries(Observed(i)[n], {LOAD_FAILED})
                /\ pc[i] \in {"return", "returned"}) => Len(errs) = 1

C10_Witness ==
    \E i \in Procs :
        /\ args[i].variant = "upsert" /\ pc[i] = "returned"
        /\ Fetches(i) = 3 /\ retval[i] = LOAD_FAILED
        /\ Len(Records(i, "error")) = 1

\* C11: a status response of FAILED never ends a call in a raised error, in
\* create_node and in upsert_node alike: the call goes on to return, and the
\* value it returns is the FAILED code.
C11_FailedIsReturnedAsData ==
    \A i \in Procs :
        (Fetches(i) >= 1 /\ Carries(Observed(i)[Fetches(i)], {LOAD_FAILED})) =>
            /\ pc[i] # "raised"
            /\ err[i] = Absent
            /\ pc[i] \in {"return", "returned"} => response[i].status = LOAD_FAILED
            /\ pc[i] = "returned" => retval[i] = LOAD_FAILED

C11_Witness ==
    \E i \in Procs :
        /\ pc[i] = "returned" /\ retval[i] = LOAD_FAILED /\ Fetches(i) = 1
        /\ args[i].variant = "upsert"

\* C12: a call makes exactly one POST, as the first thing it does; everything
\* it does to the endpoint after it is a status GET, whatever the responses.
C12_SinglePostThenGets ==
    \A i \in Procs :
        /\ pc[i] \in {"idle", "post"} => trace[i] = <<>>
        /\ pc[i] \notin {"idle", "post"} =>
              /\ Posts(i) = 1
              /\ Len(posted[i]) = 1
              /\ trace[i][1].op = "POST"
              /\ \A p \in 2..Len(trace[i]) : trace[i][p].op \in {"GET", "SLEEP", "LOG"}

C12_Witness ==
    \E i \in Procs :
        /\ pc[i] = "returned" /\ Posts(i) = 1 /\ Fetches(i) = 3
        /\ Carries(Observed(i)[3], {LOAD_FAILED})

\* C13: whatever the endpoint does, a call that ends in an error ends in the
\* submission error or the poll error, never in a raw transport, decode or
\* lookup exception.
C13_OnlyDistinguishedErrors ==
    \A i \in Procs :
        pc[i] = "raised" => err[i] \in {SubmissionError, PollError}

\* the accepted submission response carries no parseable job identifier
NoJobId(r) == r.code = HTTP_OK /\ (~r.parse \/ r.loadId = Absent)

\* C14: a submission answered 200 without a parseable job identifier ends in
\* the submission error and no status fetch is issued.
C14_MissingJobIdSurfacesSubmissionError ==
    \A i \in Procs :
        (Posts(i) >= 1 /\ NoJobId(PostResponse(i))) =>
            /\ Fetches(i) = 0
            /\ pc[i] \in {"settle", "check_post", "raised"}
            /\ pc[i] = "raised" => err[i] = SubmissionError

\* a sleep of the given length
IsSleep(e, secs) == e.op = "SLEEP" /\ e.secs = secs

\* C15: the waits keep their places in every run: the settle delay is the
\* second thing done, right after the POST and before any status fetch; a
\* successful status fetch is followed at once by one inter-poll delay, which
\* precedes the logging and the classification of its response; a backoff
\* pause follows only the classification of a transitional response.
C15_WaitOrdering ==
    \A i \in Procs :
        LET t == trace[i]
            n == Len(trace[i])
        IN  /\ \A p \in 1..n :
                  /\ IsSleep(t[p], SettleDelay) => p = 2 /\ t[1].op = "POST"
                  /\ t[p].op = "GET" => p > 2 /\ IsSleep(t[2], SettleDelay)
                  /\ (t[p].op = "GET" /\ t[p].resp.code = HTTP_OK /\ p < n) =>
                        IsSleep(t[p + 1], PollInterval)
                  /\ IsSleep(t[p], PollInterval) =>
                        p > 1 /\ t[p - 1].op = "GET" /\ t[p - 1].resp.code = HTTP_OK
                  /\ (t[p].op = "LOG" /\ t[p].level = "info") =>
                        p > 1 /\ IsSleep(t[p - 1], PollInterval)
                  /\ IsSleep(t[p], BackoffDelay) =>
                        /\ p > 3
                        /\ t[p - 3].op = "GET"
                        /\ Carries(t[p - 3].resp, Transitional)
                        /\ IsSleep(t[p - 2], PollInterval)
                        /\ t[p - 1] = LogEvent("info", t[p - 3].resp)
            /\ pc[i] = "parse" => IsSleep(t[n], PollInterval)
            /\ pc[i] = "classify" => IsSleep(t[n - 1], PollInterval)
            /\ pc[i] = "backoff" => Carries(t[n - 2].resp, Transitional)

C15_Witness ==
    \E i \in Procs :
        /\ pc[i] = "returned" /\ Fetches(i) = 3
        /\ Sleeps(i, SettleDelay) = 1
        /\ Sleeps(i, PollInterval) = 3
        /\ Sleeps(i, BackoffDelay) = 2
        /\ Carries(Observed(i)[3], {LOAD_IN_QUEUE})

\* what a call leaves behind when it ends
Result(tr, rv, e) == [trace |-> tr, retval |-> rv, err |-> e]

\* the polling loop run on its own: `left` iterations of range(limit) remain,
\* `last` is the body held in `response`, obs the answers the GETs will get
RECURSIVE PollAlone(_, _, _, _, _, _)
PollAlone(a, q, last, obs, left, tr) ==
    IF left <= 0
      THEN IF last.status = Absent
             THEN Result(tr, Absent, KeyError)
             ELSE Result(tr, last.status, Absent)
    ELSE IF obs = <<>>
      THEN Result(tr, Absent, "unfinished")
    ELSE
      LET r == Head(obs)
          t1 == Append(tr, GetEvent(temp_url(a.url, q), r))
          t2 == Append(t1, SleepEvent(PollInterval))
          t3 == Append(t2, LogEvent("info", r))
          t4 == IF LogsFailure(a.variant, r.status)
                  THEN Append(t3, LogEvent("error", r)) ELSE t3
      IN  IF r = NoResp THEN Result(t1, Absent, TransportError)
          ELSE IF ~IsOk(r) THEN Result(t1, Absent, PollError)
          ELSE IF ~r.parse THEN Result(t2, Absent, JSONDecodeError)
          ELSE IF r.status = Absent THEN Result(t3, Absent, KeyError)
          ELSE IF r.status \notin StopCodes
            THEN PollAlone(a, q, r, Tail(obs), left - 1,
                           Append(t3, SleepEvent(BackoffDelay)))
          ELSE Result(t4, r.status, Absent)

\* a whole call run on its own with arguments a, the POST answered pr and the
\* GETs answered obs
Alone(a, pr, obs) ==
    LET t1 == <<PostEvent(a.url, pr)>>
        t2 == Append(t1, SleepEvent(SettleDelay))
    IN  IF pr = NoResp THEN Result(t1, Absent, TransportError)
        ELSE IF ~pr.parse THEN Result(t2, Absent, JSONDecodeError)
        ELSE IF ~IsOk(pr) THEN Result(t2, Absent, SubmissionError)
        ELSE IF pr.loadId = Absent THEN Result(t2, Absent, KeyError)
        ELSE IF ~a.limitGiven THEN Result(t2, Absent, TypeError)
        ELSE PollAlone(a, pr.loadId, pr, obs, a.limit, t2)

Ended(i) == pc[i] \in {"returned", "raised"}

\* C16: when two invocations are interleaved in any order, what each one has
\* done when it ends (its fetches, sleeps and log records in order, its
\* returned value or error) is what the same call does run on its own with
\* the same arguments and the same responses.
C16_InterleavedEqualsAlone ==
    \A i \in Procs :
        Ended(i) =>
            Result(trace[i], retval[i], err[i])
                = Alone(args[i], PostResponse(i), Observed(i))

\* one invocation ended with two fetches while the other, of the other
\* variant and with another job id, was in the middle of its own loop
C16_Witness ==
    \E i \in Procs, j \in Procs :
        /\ i # j
        /\ pc[i] = "returned" /\ Fetches(i) = 2 /\ retval[i] = LOAD_FAILED
        /\ pc[j] = "backoff" /\ Fetches(j) = 1
        /\ args[i].variant # args[j].variant
        /\ queue_id[i] # queue_id[j]

\* C17: limit is the only bound the loop needs: a call with limit >= 0 never
\* issues more than limit status fetches and, every blocking call and sleep
\* returning, it eventually ends, by returning or by raising.
C17_EndsWithinLimitFetches ==
    /\ [](\A i \in Procs : args[i].limitGiven => Fetches(i) <= args[i].limit)
    /\ \A i \in Procs : (pc[i] # "idle") ~> Ended(i)

C17_Witness ==
    \E i \in Procs :
        /\ Ended(i) /\ err[i] = PollError
        /\ args[i].limit >= 3 /\ Fetches(i) = args[i].limit

\* the state of the job tracker an invocation is in: none before the
\* submission is accepted, SUBMITTED until the first status fetch, POLLING
\* inside the loop, and a terminal state once the loop is left
TerminalStates == {"COMPLETED", "FAILED", "QUEUED", "BUDGET_EXHAUSTED"}

TrackerState(i) ==
    IF pc[i] \in {"idle", "post", "settle", "check_post"} THEN "NONE"
    ELSE IF pc[i] = "raised" THEN "ERROR"
    ELSE IF pc[i] = "returned" THEN Outcome(i)
    ELSE IF Fetches(i) = 0 THEN "SUBMITTED"
    ELSE IF pc[i] = "return" THEN OutcomeOf(response[i].status)
    ELSE "POLLING"

\* C18: the tracker follows the state machine: SUBMITTED is the first state
\* it enters, on the accepted submission; from POLLING the classification of
\* a response leads back to POLLING exactly when the code is transitional and
\* otherwise to the terminal state of that code; a terminal state is never
\* left and nothing is fetched or done in it.
C18_TrackerStateMachine ==
    [][\A i \in Procs :
          LET s == TrackerState(i)
              t == TrackerState(i)'
          IN  /\ s = "NONE" => t \in {"NONE", "SUBMITTED", "ERROR"}
              /\ (pc[i] = "check_post" /\ pc'[i] # "raised") => t = "SUBMITTED"
              /\ s = "SUBMITTED" =>
                    t \in {"SUBMITTED", "POLLING", "ERROR"} \cup TerminalStates
              /\ (s = "SUBMITTED" /\ t = "POLLING") => Fetches(i)' = 1
              /\ (pc[i] = "classify" /\ pc'[i] # "raised") =>
                    /\ t = "POLLING" <=> response[i].status \in Transitional
                    /\ t # "POLLING" => t = OutcomeOf(response[i].status)
              /\ (s = "POLLING" /\ t = "BUDGET_EXHAUSTED") =>
                    /\ iter[i] = args[i].limit
                    /\ response[i].status \in Transitional
              /\ s \in TerminalStates => (t = s /\ trace'[i] = trace[i])
    ]_vars

C18_Witness ==
    \E i \in Procs :
        /\ pc[i] = "return" /\ Fetches(i) = 2
        /\ TrackerState(i) = "BUDGET_EXHAUSTED"

\* the status responses fetched with success and parsed are each logged
PollResponsesLogged(i) ==
    \A p \in 1..Len(trace[i]) :
        (/\ trace[i][p].op = "GET"
         /\ trace[i][p].resp.code = HTTP_OK /\ trace[i][p].resp.parse
         /\ p + 2 <= Len(trace[i])) =>
            trace[i][p + 2] = LogEvent("info", trace[i][p].resp)

\* C19 as stated: each poll response is logged, and a call that ends in the
\* submission error or the poll error has logged the failure before raising.
C19_FailuresAreLogged ==
    \A i \in Procs :
        /\ PollResponsesLogged(i)
        /\ (pc[i] = "raised" /\ err[i] \in {SubmissionError, PollError}) =>
              trace[i][Len(trace[i])].op = "LOG"

\* C19 amended: each status response fetched with success and parsed is
\* logged at info level; no log record follows a non-success POST or GET
\* response, so the submission error and the poll error are raised unlogged.
C19_FailuresAreRaisedUnlogged ==
    \A i \in Procs :
        /\ PollResponsesLogged(i)
        /\ \A p \in 1..Len(trace[i]) :
              (trace[i][p].op \in {"POST", "GET"} /\ NonSuccess(trace[i][p].resp)) =>
                  \A q \in p..Len(trace[i]) : trace[i][q].op # "LOG"
        /\ (pc[i] = "raised" /\ err[i] \in {SubmissionError, PollError}) =>
              trace[i][Len(trace[i])].op # "LOG"

C19_Witness ==
    \E i \in Procs :
        /\ pc[i] = "raised" /\ err[i] = PollError
        /\ Fetches(i) = 2 /\ Len(Records(i, "info")) = 1

\* C20: the job handle of an invocation is the identifier its accepted
\* submission response carried and never changes: every status GET of the
\* invocation goes to {url the POST was sent to}/{that identifier}.
C20_GetsTargetTheSubmittedJob ==
    \A i \in Procs :
        /\ PollStarted(i) =>
              /\ queue_id[i] \in JobIds
              /\ queue_id[i] = PostResponse(i).loadId
        /\ \A p \in 1..Len(trace[i]) :
              trace[i][p].op = "GET" =>
                  trace[i][p].target
                      = <<trace[i][1].target[1], "/", PostResponse(i).loadId>>

C20_Witness ==
    \E i \in Procs :
        /\ Fetches(i) = 3 /\ PostResponse(i).loadId = "job-b"
        /\ \A k \in 1..3 : GetEvents(i)[k].target = <<graph_loader_uri, "/", "job-b">>

\* the other of the two functions
OtherVariant(v) == IF v = "create" THEN "upsert" ELSE "create"

\* a trace without its error-severity records
WithoutErrorRecords(tr) ==
    SelectSeq(tr, LAMBDA e : ~(e.op = "LOG" /\ e.level = "error"))

\* what create_node does, and what upsert_node does, with the arguments,
\* the POST response and the status responses of invocation i
AsCreate(i) ==
    Alone([args[i] EXCEPT !.variant = "create"], PostResponse(i), Observed(i))
AsUpsert(i) ==
    Alone([args[i] EXCEPT !.variant = "upsert"], PostResponse(i), Observed(i))

\* C21: create_node and upsert_node share the polling protocol: with the
\* same limit and the same responses, the ended call and the other function
\* given the same inputs issue the same fetches, wait the same delays, emit
\* the same info records and return the same value or raise the same error
\* after the same fetch; the traces differ only in the one error record that
\* upsert_node appends when the last status fetched is LOAD_FAILED.
C21_SharedPollingProtocol ==
    \A i \in Solo :
        Ended(i) =>
            LET mine == Result(trace[i], retval[i], err[i])
                other == Alone([args[i] EXCEPT !.variant = OtherVariant(@)],
                               PostResponse(i), Observed(i))
                c == AsCreate(i)
                u == AsUpsert(i)
            IN  /\ mine \in {c, u} /\ other \in {c, u}
                /\ WithoutErrorRecords(mine.trace) = WithoutErrorRecords(other.trace)
                /\ mine.retval = other.retval
                /\ mine.err = other.err
                /\ c.trace = WithoutErrorRecords(c.trace)
                /\ IF c.retval = LOAD_FAILED /\ Fetches(i) >= 1
                     THEN u.trace = Append(c.trace,
                              LogEvent("error", Observed(i)[Fetches(i)]))
                     ELSE u.trace = c.trace

\* an upsert_node call returned LOAD_FAILED after a transitional response,
\* with its error record; create_node would have done the same without it
C21_Witness ==
    \E i \in Solo :
        /\ pc[i] = "returned" /\ args[i].variant = "upsert"
        /\ Fetches(i) = 2 /\ retval[i] = LOAD_FAILED
        /\ Len(Records(i, "error")) = 1
        /\ Len(AsCreate(i).trace) = Len(trace[i]) - 1

\* C22: last response wins: whenever a call returns after at least one
\* status fetch, the value returned is the status code carried by the most
\* recently fetched response, whether the loop stopped on it or ran out.
C22_LastResponseWins ==
    \A i \in Solo :
        (pc[i] = "returned" /\ Fetches(i) >= 1) =>
            /\ Observed(i)[Fetches(i)].code = HTTP_OK
            /\ retval[i] = Observed(i)[Fetches(i)].status

\* the budget ran out after two different transitional codes and the second
\* one was returned
C22_Witness ==
    \E i \in Solo :
        /\ pc[i] = "returned" /\ args[i].limit = 2 /\ Fetches(i) = 2
        /\ Observed(i)[1].status = "LOAD_IN_PROGRESS"
        /\ Observed(i)[2].status = "LOAD_NOT_STARTED"
        /\ retval[i] = "LOAD_NOT_STARTED"

\* how many of the status responses fetched so far carry a transitional code
TransitionalObserved(i) ==
    Len(SelectSeq(GetEvents(i), LAMBDA e : Carries(e.resp, Transitional)))

\* C23: the number of backoff pauses of a run equals the number of
\* transitional responses it observed: the pauses never run ahead of the
\* transitional responses and lag by at most the one being handled, they are
\* equal when the call has ended, and on the exhausted path the pause after
\* the limit-th transitional response is the last thing the call does.
C23_BackoffPerTransitional ==
    \A i \in Solo :
        /\ Sleeps(i, BackoffDelay) <= TransitionalObserved(i)
        /\ TransitionalObserved(i) <= Sleeps(i, BackoffDelay) + 1
        /\ pc[i] \in {"loop", "return", "returned", "raised"} =>
              Sleeps(i, BackoffDelay) = TransitionalObserved(i)
        /\ (LoopExhausted(i) /\ args[i].limit >= 1) =>
              /\ Sleeps(i, BackoffDelay) = args[i].limit
              /\ IsSleep(trace[i][Len(trace[i])], BackoffDelay)

\* the budget of two ran out: two transitional responses, two backoff
\* pauses, the second one after the last fetch
C23_Witness ==
    \E i \in Solo :
        /\ pc[i] = "returned" /\ args[i].limit = 2 /\ Fetches(i) = 2
        /\ TransitionalObserved(i) = 2
        /\ Sleeps(i, BackoffDelay) = 2
        /\ GetPosition(i, 2) < Len(trace[i])
        /\ IsSleep(trace[i][Len(trace[i])], BackoffDelay)

\* C24: with limit = 0 an accepted call issues the POST and no status fetch,
\* and the value it returns is looked up in the submission response: it
\* returns the status that response carries if it carries one, and ends in
\* the lookup failure (KeyError) otherwise.
C24_ZeroLimitReadsSubmissionResponse ==
    \A i \in Solo :
        (args[i].limitGiven /\ args[i].limit = 0 /\ PollStarted(i)) =>
            /\ Posts(i) = 1 /\ Fetches(i) = 0
            /\ pc[i] \in {"loop", "return", "returned", "raised"}
            /\ response[i] = PostResponse(i)
            /\ pc[i] = "returned" =>
                  /\ PostResponse(i).status # Absent
                  /\ retval[i] = PostResponse(i).status
            /\ pc[i] = "raised" =>
                  /\ PostResponse(i).status = Absent
                  /\ err[i] = KeyError /\ retval[i] = Absent

\* a call with limit = 0 returned the status found in the submission
\* response without any fetch
C24_Witness ==
    \E i \in Solo :
        /\ args[i].limitGiven /\ args[i].limit = 0
        /\ pc[i] = "returned" /\ Fetches(i) = 0
        /\ PostResponse(i).status = LOAD_FAILED /\ retval[i] = LOAD_FAILED

\* the POST came back with a response and the call has moved past the sleep
\* that follows it
PostAnswered(i) ==
    /\ pc[i] \notin {"idle", "post", "settle"}
    /\ PostResponse(i) # NoResp

\* C25: the settle delay is waited right after the POST returns and before
\* the response status is examined: once the POST has returned a response
\* the second thing the call has done is the one 2-second sleep, which is
\* there when the status is examined and when the submission is rejected
\* with the submission error; a POST that raises is followed by no sleep.
C25_SettleBeforeStatusCheck ==
    \A i \in Solo :
        /\ PostAnswered(i) =>
              /\ Len(trace[i]) >= 2
              /\ trace[i][1].op = "POST"
              /\ IsSleep(trace[i][2], SettleDelay)
              /\ Sleeps(i, SettleDelay) = 1
        /\ pc[i] = "check_post" => Len(trace[i]) = 2
        /\ (pc[i] = "raised" /\ err[i] = SubmissionError) =>
              /\ NonSuccess(PostResponse(i))
              /\ trace[i] = <<PostEvent(args[i].url, PostResponse(i)),
                             SleepEvent(SettleDelay)>>
        /\ (pc[i] # "idle" /\ pc[i] # "post" /\ PostResponse(i) = NoResp) =>
              Sleeps(i, SettleDelay) = 0

\* a submission answered 500 was rejected with the submission error after
\* the settle delay had been waited
C25_Witness ==
    \E i \in Solo :
        /\ pc[i] = "raised" /\ err[i] = SubmissionError
        /\ PostResponse(i).code = 500
        /\ Len(trace[i]) = 2 /\ IsSleep(trace[i][2], SettleDelay)

\* C26: a call made with the default limit (None) whose submission is
\* accepted has sent the POST and extracted the job id, and then fails at the
\* loop head with TypeError before any status fetch: the job is submitted but
\* never polled, and no status is returned.
C26_DefaultLimitNeverPolls ==
    \A i \in Solo :
        (pc[i] # "idle" /\ ~args[i].limitGiven) =>
            /\ Fetches(i) = 0
            /\ retval[i] = Absent
            /\ pc[i] \in {"post", "settle", "check_post", "loop", "raised"}
            /\ PollStarted(i) =>
                  /\ Posts(i) = 1 /\ Len(posted[i]) = 1
                  /\ queue_id[i] = PostResponse(i).loadId
                  /\ queue_id[i] \in JobIds
                  /\ pc[i] = "raised" => err[i] = TypeError

\* a call with the default limit raised TypeError after its job had been
\* submitted and its id extracted
C26_Witness ==
    \E i \in Solo :
        /\ ~args[i].limitGiven
        /\ pc[i] = "raised" /\ err[i] = TypeError
        /\ Posts(i) = 1 /\ queue_id[i] = "job-a" /\ Fetches(i) = 0

\* the values the loader accepts for parallelism
ParallelismLevels == {"LOW", "MEDIUM", "HIGH"}

\* the fixed fields of a payload hold the constants of the source
FixedFields(p) ==
    /\ p.format = "csv"
    /\ p.mode = "AUTO"
    /\ p.failOnError = "FALSE"
    /\ p.parallelism = "MEDIUM"
    /\ p.parallelism \in ParallelismLevels

\* C27: the payload is built once and sent unchanged: in both functions its
\* fixed fields are format = csv, mode = AUTO, failOnError = FALSE and
\* parallelism = MEDIUM, its source names the key of the call, what the POST
\* sent is the payload as built, and no later step (no poll response, no
\* iteration) changes the payload, what was sent or the function being run.
C27_PayloadFixedAndUnchanged ==
    /\ [](\A i \in Solo :
            pc[i] # "idle" =>
                /\ FixedFields(payload[i])
                /\ payload[i].source = Source(args[i].key)
                /\ Len(posted[i]) <= 1
                /\ pc[i] # "post" => posted[i] = <<payload[i]>>)
    /\ [][\A i \in Solo :
            pc[i] # "idle" =>
                /\ payload'[i] = payload[i]
                /\ args'[i].variant = args[i].variant
                /\ pc[i] # "post" => posted'[i] = posted[i]]_vars

\* an upsert_node call went through two polling iterations and returned with
\* the payload it had sent still the one it built
C27_Witness ==
    \E i \in Solo :
        /\ pc[i] = "returned" /\ Fetches(i) = 2
        /\ args[i].variant = "upsert" /\ args[i].key = "edges.csv"
        /\ posted[i] = <<payload[i]>>
        /\ payload[i].parallelism = "MEDIUM" /\ payload[i].format = "csv"

IsInfoRecord(e) == e.op = "LOG" /\ e.level = "info"

\* the status fetches answered 200, and those of them whose body parsed
SuccessfulFetches(i) ==
    SelectSeq(GetEvents(i), LAMBDA e : e.resp.code = HTTP_OK)
ParsedFetches(i) ==
    SelectSeq(GetEvents(i), LAMBDA e : e.resp.code = HTTP_OK /\ e.resp.parse)

\* C28 as stated: when a call has ended, the number of info records it
\* emitted equals the number of status fetches that returned success.
C28_InfoRecordPerSuccessfulFetch ==
    \A i \in Solo :
        Ended(i) => Len(Records(i, "info")) = Len(SuccessfulFetches(i))

\* C28 (amended): the number of info records of an ended call equals the
\* number of status fetches answered 200 with a body that parsed; each info
\* record comes right after the inter-poll delay of its fetch and before
\* anything its classification does (backoff pause, error record); a fetch
\* answered with a non-success response is the last thing the call does (no
\* delay, no info record, no classification), and a fetch answered 200 with
\* a body that does not parse is followed by its delay and nothing else.
C28_InfoRecordPerParsedFetch ==
    \A i \in Solo :
        LET t == trace[i] IN
        /\ Len(Records(i, "info")) <= Len(ParsedFetches(i))
        /\ Len(ParsedFetches(i)) <= Len(Records(i, "info")) + 1
        /\ Ended(i) => Len(Records(i, "info")) = Len(ParsedFetches(i))
        /\ pc[i] = "classify" => IsInfoRecord(t[Len(t)])
        /\ \A p \in 1..Len(t) :
              /\ IsInfoRecord(t[p]) =>
                    /\ p >= 3
                    /\ IsSleep(t[p-1], PollInterval)
                    /\ t[p-2].op = "GET" /\ t[p-2].resp = t[p].resp
              /\ (IsSleep(t[p], BackoffDelay)
                    \/ (t[p].op = "LOG" /\ t[p].level = "error")) =>
                    /\ p >= 2 /\ IsInfoRecord(t[p-1])
              /\ (t[p].op = "GET" /\ ~IsOk(t[p].resp)) =>
                    /\ p = Len(t)
                    /\ pc[i] \in {"check_get", "raised"}
              /\ (t[p].op = "GET" /\ IsOk(t[p].resp) /\ ~t[p].resp.parse) =>
                    /\ Len(t) <= p + 1
                    /\ pc[i] = "raised" =>
                          /\ Len(t) = p + 1 /\ IsSleep(t[p+1], PollInterval)
                          /\ err[i] = JSONDecodeError

\* a call fetched a transitional status, logged it, and then raised the poll
\* error on a fetch answered 500: two fetches, one info record, the failed
\* fetch last
C28_Witness ==
    \E i \in Solo :
        /\ pc[i] = "raised" /\ err[i] = PollError
        /\ Fetches(i) = 2 /\ Len(Records(i, "info")) = 1
        /\ Len(SuccessfulFetches(i)) = 1
        /\ trace[i][Len(trace[i])].op = "GET"

====
